---------------------------- MODULE Spec2Model ----------------------------
(***************************************************************************)
(* USB device monitor (src/src/main.rs): the poll loop of main, the device *)
(* enumerator, the heuristic analyzer and the kernel-log scanner.          *)
(*                                                                         *)
(* Text is modelled as it is in the program: a line is a sequence of       *)
(* characters, and to_lowercase, contains, split and trim are computed on  *)
(* the characters.  A captured log is the sequence of its lines (what      *)
(* str::lines yields); the empty text is the empty sequence.               *)
(***************************************************************************)
EXTENDS Integers, Sequences, FiniteSets, TLC

\* ------------------------------------------------------------ bounds
\* Kernel log lines written while the monitor runs (serial numbers 1..MaxSerial).
MaxSerial == 2
\* Lines of a drawn log text that follow its padding.
MaxSuffix == 2
\* The padding of a drawn log text is 0 lines or RawLogLimit -/+ PadSlack lines.
PadSlack == 1

\* ------------------------------------------------------------ program constants
\* log_output.lines().take(40)
RawLogLimit == 40

\* ------------------------------------------------------------ text
Min(S) == CHOOSE x \in S : \A y \in S : x <= y
Max(S) == CHOOSE x \in S : \A y \in S : x >= y

KwSunxi == <<"w", "i", "t", "h", " ", "s", "u", "n", "x", "i", "_", "u", "s", "b", "_", "u", "d", "c">>
KwReset == <<"d", "e", "v", "i", "c", "e", " ", "r", "e", "s", "e", "t", " ", "o", "c", "c", "u", "r", "r", "e", "d">>
KwMfr == <<"M", "f", "r", "=", "0", ",", " ", "P", "r", "o", "d", "u", "c", "t", "=", "0">>
PatNew == <<"n", "e", "w">>
PatDeviceNumber == <<"U", "S", "B", " ", "d", "e", "v", "i", "c", "e", " ", "n", "u", "m", "b", "e", "r">>
PatIdVendor == <<"i", "d", "V", "e", "n", "d", "o", "r", "=">>
PatIdProduct == <<"i", "d", "P", "r", "o", "d", "u", "c", "t", "=">>
PatManufacturer == <<"M", "a", "n", "u", "f", "a", "c", "t", "u", "r", "e", "r", ":">>
PatProduct == <<"P", "r", "o", "d", "u", "c", "t", ":">>
PatSerialNumber == <<"S", "e", "r", "i", "a", "l", "N", "u", "m", "b", "e", "r", ":">>
SepColonSpace == <<":", " ">>
LineText ==
       "L_new" :> <<"u", "s", "b", " ", "1", "-", "1", ":", " ", "n", "e", "w", " ", "U", "S", "B", " ", "d", "e", "v", "i", "c", "e", " ", "n", "u", "m", "b", "e", "r", " ", "5">>
    @@ "L_new_blank" :> <<":", " ", "n", "e", "w", " ", "U", "S", "B", " ", "d", "e", "v", "i", "c", "e", " ", "n", "u", "m", "b", "e", "r", " ", "5">>
    @@ "L_new_ws" :> <<" ", " ", ":", " ", "n", "e", "w", " ", "U", "S", "B", " ", "d", "e", "v", "i", "c", "e", " ", "n", "u", "m", "b", "e", "r", " ", "5">>
    @@ "L_new_nosep" :> <<"n", "e", "w", " ", "U", "S", "B", " ", "d", "e", "v", "i", "c", "e", " ", "n", "u", "m", "b", "e", "r", " ", "5">>
    @@ "L_ids" :> <<"u", "s", "b", " ", "1", "-", "1", ":", " ", "i", "d", "V", "e", "n", "d", "o", "r", "=", "1", "d", "6", "b", ",", " ", "i", "d", "P", "r", "o", "d", "u", "c", "t", "=", "0", "0", "0", "2">>
    @@ "L_strings0" :> <<"u", "s", "b", " ", "1", "-", "1", ":", " ", "M", "f", "r", "=", "0", ",", " ", "P", "r", "o", "d", "u", "c", "t", "=", "0", ",", " ", "S", "e", "r", "i", "a", "l", "N", "u", "m", "b", "e", "r", "=", "0">>
    @@ "L_strings0_uc" :> <<"U", "S", "B", " ", "1", "-", "1", ":", " ", "M", "F", "R", "=", "0", ",", " ", "P", "R", "O", "D", "U", "C", "T", "=", "0", ",", " ", "S", "E", "R", "I", "A", "L", "N", "U", "M", "B", "E", "R", "=", "0">>
    @@ "L_manufacturer" :> <<"u", "s", "b", " ", "1", "-", "1", ":", " ", "M", "a", "n", "u", "f", "a", "c", "t", "u", "r", "e", "r", ":", " ", "A", "C", "M", "E">>
    @@ "L_product_sus" :> <<"u", "s", "b", " ", "1", "-", "1", ":", " ", "P", "r", "o", "d", "u", "c", "t", ":", " ", "m", "f", "r", "=", "0", ",", " ", "p", "r", "o", "d", "u", "c", "t", "=", "0">>
    @@ "L_reset" :> <<"u", "s", "b", " ", "1", "-", "1", ":", " ", "D", "e", "v", "i", "c", "e", " ", "R", "e", "s", "e", "t", " ", "O", "c", "c", "u", "r", "r", "e", "d">>
    @@ "L_sunxi" :> <<"g", "a", "d", "g", "e", "t", ":", " ", "w", "i", "t", "h", " ", "s", "u", "n", "x", "i", "_", "u", "s", "b", "_", "u", "d", "c">>
    @@ "L_benign" :> <<"e", "t", "h", "0", ":", " ", "l", "i", "n", "k", " ", "u", "p">>
    @@ "L_empty" :> <<>>

FieldIds == <<"i", "d", "s">>
FieldManufacturer == <<"m", "a", "n", "u", "f", "a", "c", "t", "u", "r", "e", "r">>
FieldProduct == <<"p", "r", "o", "d", "u", "c", "t">>
FieldSerial == <<"s", "e", "r", "i", "a", "l">>
Underscore == <<"_">>
LowerOf ==
       "A" :> "a"
    @@ "B" :> "b"
    @@ "C" :> "c"
    @@ "D" :> "d"
    @@ "E" :> "e"
    @@ "F" :> "f"
    @@ "G" :> "g"
    @@ "H" :> "h"
    @@ "I" :> "i"
    @@ "J" :> "j"
    @@ "K" :> "k"
    @@ "L" :> "l"
    @@ "M" :> "m"
    @@ "N" :> "n"
    @@ "O" :> "o"
    @@ "P" :> "p"
    @@ "Q" :> "q"
    @@ "R" :> "r"
    @@ "S" :> "s"
    @@ "T" :> "t"
    @@ "U" :> "u"
    @@ "V" :> "v"
    @@ "W" :> "w"
    @@ "X" :> "x"
    @@ "Y" :> "y"
    @@ "Z" :> "z"

Whitespace == {" ", "\t"}

\* str::to_lowercase, on ASCII letters
to_lowercase(s) == [i \in DOMAIN s |-> IF s[i] \in DOMAIN LowerOf THEN LowerOf[s[i]] ELSE s[i]]

\* str::contains: needle occurs in hay as a contiguous substring
contains(hay, needle) ==
    \E i \in 0..(Len(hay) - Len(needle)) : SubSeq(hay, i + 1, i + Len(needle)) = needle

\* str::split(sep).next(): the text before the first sep, the whole text if there is none
split_next(s, sep) ==
    LET hits == {i \in 1..(Len(s) - Len(sep) + 1) : SubSeq(s, i, i + Len(sep) - 1) = sep}
    IN  IF hits = {} THEN s ELSE SubSeq(s, 1, Min(hits) - 1)

\* str::trim
trim(s) ==
    LET keep == {i \in DOMAIN s : s[i] \notin Whitespace}
    IN  IF keep = {} THEN <<>> ELSE SubSeq(s, Min(keep), Max(keep))

\* ------------------------------------------------------------ kernel-log scanner
LineIds == DOMAIN LineText

suspicious_keywords == <<KwSunxi, KwReset, KwMfr>>

\* The keyword as format! prints it in a finding.
KeywordName == <<"with sunxi_usb_udc", "device reset occurred", "Mfr=0, Product=0">>

PatternText ==
       "new" :> PatNew
    @@ "USB device number" :> PatDeviceNumber
    @@ "idVendor=" :> PatIdVendor
    @@ "idProduct=" :> PatIdProduct
    @@ "Manufacturer:" :> PatManufacturer
    @@ "Product:" :> PatProduct
    @@ "SerialNumber:" :> PatSerialNumber

\* The string operations of the scanner on each line of the catalogue, computed once.
LineContains == [l \in LineIds |-> [p \in DOMAIN PatternText |-> contains(LineText[l], PatternText[p])]]
LineLowerContains ==
    [l \in LineIds |-> [k \in DOMAIN suspicious_keywords |->
        contains(to_lowercase(LineText[l]), to_lowercase(suspicious_keywords[k]))]]
LineCaseContains ==
    [l \in LineIds |-> [k \in DOMAIN suspicious_keywords |-> contains(LineText[l], suspicious_keywords[k])]]
LineLocation == [l \in LineIds |-> trim(split_next(LineText[l], SepColonSpace))]

\* line.contains(p)
line_contains(l, p) == LineContains[l][p]

is_suspicious_case_sensitive(l, k) == LineCaseContains[l][k]
\* line.to_lowercase().contains(&keyword.to_lowercase())
is_suspicious(l, k) == LineLowerContains[l][k]

\* The findings of one line, one per matching keyword, in the keywords' order.
keyword_flags(l, source) ==
    LET all == [k \in DOMAIN suspicious_keywords |-> [source |-> source, keyword |-> KeywordName[k], line |-> l]]
        hit(f) == \E k \in DOMAIN suspicious_keywords : f.keyword = KeywordName[k] /\ is_suspicious(l, k)
    IN  SelectSeq(all, hit)

\* log_output.lines().take(40)
raw_scanned(lines) == SubSeq(lines, 1, IF Len(lines) < RawLogLimit THEN Len(lines) ELSE RawLogLimit)

RECURSIVE flags_of(_, _)
flags_of(lines, source) ==
    IF lines = <<>> THEN <<>>
    ELSE keyword_flags(Head(lines), source) \o flags_of(Tail(lines), source)

\* The findings of the raw scan.
raw_flags(lines) == flags_of(raw_scanned(lines), "raw log")

map_insert(map, k, v) == [x \in (DOMAIN map) \cup {k} |-> IF x = k THEN v ELSE map[x]]

\* line.split(": ").next() trimmed
location(l) == LineLocation[l]

\* current_device after the line
next_current_device(l, current_device) ==
    IF line_contains(l, "new") /\ line_contains(l, "USB device number")
    THEN location(l)
    ELSE current_device

insert_ids_inverted(l, current_device, device_info) ==
    IF line_contains(l, "idVendor=") /\ line_contains(l, "idProduct=") /\ current_device = <<>>
    THEN map_insert(device_info, current_device \o Underscore \o FieldIds, l)
    ELSE device_info
\* device_info.insert(format!("{}_ids", current_device), line)
insert_ids(l, current_device, device_info) ==
    IF line_contains(l, "idVendor=") /\ line_contains(l, "idProduct=") /\ current_device # <<>>
    THEN map_insert(device_info, current_device \o Underscore \o FieldIds, l)
    ELSE device_info

\* device_info.insert(format!("{}_{}", current_device, key), line)
insert_field(l, current_device, device_info) ==
    IF /\ \/ line_contains(l, "Manufacturer:")
          \/ line_contains(l, "Product:")
          \/ line_contains(l, "SerialNumber:")
       /\ current_device # <<>>
    THEN LET key == IF line_contains(l, "Manufacturer:") THEN FieldManufacturer
                    ELSE IF line_contains(l, "Product:") THEN FieldProduct
                    ELSE FieldSerial
         IN  map_insert(device_info, current_device \o Underscore \o key, l)
    ELSE device_info

\* One pass of the extraction loop's body (lines 302-326) over line l.
extract_line(st, l) ==
    LET cd == next_current_device(l, st.current_device)
    IN  [current_device |-> cd,
         device_info |-> insert_field(l, cd, insert_ids(l, cd, st.device_info))]

\* The extraction loop's state after the first n lines.
RECURSIVE extract_upto(_, _)
extract_upto(lines, n) ==
    IF n = 0 THEN [current_device |-> <<>>, device_info |-> <<>>]
    ELSE CHOOSE after \in {extract_line(st, lines[n]) : st \in {extract_upto(lines, n - 1)}} : TRUE

\* The per-device records of the whole output.
extract_device_info(lines) == extract_upto(lines, Len(lines)).device_info

\* The orders in which a HashMap with these keys may be iterated.
iteration_orders(keys) ==
    {o \in [1..Cardinality(keys) -> keys] : {o[i] : i \in DOMAIN o} = keys}

\* The findings of the recorded values, in the map's iteration order.
value_flags(device_info, order) ==
    flags_of([i \in DOMAIN order |-> device_info[order[i]]], "value")

MsgFailed == "Failed to execute dmesg command"
MsgNoEvents == "No USB events found in recent kernel logs"
MsgDevice == "Suspicious USB device detected in kernel logs!"
MsgClean == "No suspicious signs of usb"
MsgActivity == "Suspicious USB activity detected in kernel logs!"
MsgNoInfo == "USB events detected but no device information extracted"
MsgMacOS == "System logs checked for macOS"
MsgUnsupported == "Unsupported OS for log checking"

classify_flags_first(device_info, flags) ==
    IF flags # <<>>
    THEN <<MsgActivity, flags>>
    ELSE IF device_info # <<>> THEN <<MsgClean, flags>> ELSE <<MsgNoInfo, <<>>>>
\* The result for a non-empty output.
classify(device_info, flags) ==
    IF device_info # <<>>
    THEN IF flags # <<>> THEN <<MsgDevice, flags>> ELSE <<MsgClean, flags>>
    ELSE IF flags # <<>> THEN <<MsgActivity, flags>> ELSE <<MsgNoInfo, <<>>>>

\* cmd is what Command::output returned: status "output" (Ok) with the lines of stdout, or
\* another status (Err).
\* order is the iteration order of device_info.
def_check_kernel_logs(operating_system, cmd, order) ==
    CASE operating_system = "Linux" ->
            IF cmd.status # "output" THEN <<MsgFailed, <<>>>>
            ELSE IF cmd.stdout = <<>> THEN <<MsgNoEvents, <<>>>>
            ELSE LET device_info == extract_device_info(cmd.stdout)
                 IN  classify(device_info, raw_flags(cmd.stdout) \o value_flags(device_info, order))
      [] operating_system = "macOS" -> <<MsgMacOS, <<>>>>
      [] OTHER -> <<MsgUnsupported, <<>>>>

\* ------------------------------------------------------------ heuristic analyzer
High == "Detection of implantable devices: High confidence"
NoConfidence == "Detection of implantable devices: No confidence"

def_analysis_off_by_one(voltage, speed) ==
    IF \/ (voltage <= 10 /\ speed > 400)
       \/ (voltage > 481 /\ speed > 10 /\ speed < 25)
       \/ (voltage >= 200 /\ speed < 2)
       \/ (voltage = 100 /\ speed < 2)
    THEN High
    ELSE NoConfidence
def_analysis_voltage_and_speed(voltage, speed) ==
    IF \/ (voltage < 10 /\ speed > 400)
       \/ (voltage > 481 /\ speed > 10 /\ speed < 25)
       \/ (voltage >= 200 /\ speed < 2)
       \/ (voltage = 100 /\ speed < 2)
    THEN High
    ELSE NoConfidence

\* ------------------------------------------------------------ OS compatibility checker
\* cfg(target_os): the platform the program was built for
Platforms == {"Linux", "macOS", "Unsupported OS"}

get_current_os(platform) == platform

check_os_compatibility_lenient(platform) == <<TRUE, get_current_os(platform)>>
\* (is_compatible, os_name)
check_os_compatibility(platform) ==
    LET os_name == get_current_os(platform)
    IN  CASE os_name = "Linux" -> <<TRUE, "Linux">>
          [] os_name = "macOS" -> <<TRUE, "macOS">>
          [] OTHER -> <<FALSE, os_name>>

\* ------------------------------------------------------------ USB devices
\* (bus number, address)
Keys == {<<1, 2>>, <<1, 3>>}

\* What the device at each key answers: its device descriptor, its link speed, its
\* strings and the max_power of configuration 0.  A string index of 0 is None.
Hardware ==
       \* a self-powered high-speed hub
       <<1, 2>> :> [vendor_id |-> 7531, product_id |-> 260, class_code |-> 9, sub_class_code |-> 0,
                    protocol_code |-> 1, num_configurations |-> 1,
                    manufacturer_string_index |-> 1, product_string_index |-> 0,
                    serial_number_string_index |-> 0,
                    manufacturer |-> "ACME", product |-> "", serial |-> "",
                    speed |-> "High", max_power |-> 0]
       \* a full-speed keyboard without strings
    @@ <<1, 3>> :> [vendor_id |-> 1133, product_id |-> 49948, class_code |-> 3, sub_class_code |-> 1,
                    protocol_code |-> 1, num_configurations |-> 1,
                    manufacturer_string_index |-> 0, product_string_index |-> 0,
                    serial_number_string_index |-> 0,
                    manufacturer |-> "", product |-> "", serial |-> "",
                    speed |-> "Full", max_power |-> 100]

\* The outcomes of the USB calls made while one device is inspected.
IoOk == [desc |-> TRUE, open |-> TRUE, languages |-> "ok", read |-> TRUE, config |-> TRUE]
IoOutcomes ==
    { IoOk,
      [IoOk EXCEPT !.desc = FALSE],
      [IoOk EXCEPT !.open = FALSE],
      [IoOk EXCEPT !.languages = "err"],
      [IoOk EXCEPT !.languages = "none"],
      [IoOk EXCEPT !.read = FALSE],
      [IoOk EXCEPT !.config = FALSE],
      [IoOk EXCEPT !.open = FALSE, !.config = FALSE] }

\* match device.speed()
speed_mbit(s) ==
    CASE s = "Low" -> 1
      [] s = "Full" -> 12
      [] s = "High" -> 480
      [] s = "Super" -> 5000
      [] s = "SuperPlus" -> 10000
      [] OTHER -> 0

\* One string descriptor: read only when the handle is open, a first language exists and
\* the descriptor declares an index; a failed read is the empty string.
read_string(io, index, value) ==
    IF io.open /\ io.languages = "ok" /\ index # 0 /\ io.read THEN value ELSE ""

get_device_info(k, io) ==
    LET hw == Hardware[k]
    IN  [vendor_id |-> hw.vendor_id,
         product_id |-> hw.product_id,
         manufacturer |-> read_string(io, hw.manufacturer_string_index, hw.manufacturer),
         product_name |-> read_string(io, hw.product_string_index, hw.product),
         serial_number |-> read_string(io, hw.serial_number_string_index, hw.serial),
         max_power_ma |-> IF io.config THEN hw.max_power % 65536 ELSE 0,
         speed |-> speed_mbit(hw.speed),
         device_class |-> hw.class_code,
         device_subclass |-> hw.sub_class_code,
         device_protocol |-> hw.protocol_code,
         num_configurations |-> hw.num_configurations]

\* Whether Context::new() and context.devices() both succeeded.
bus_ok(bus) == bus = "ok"

\* bus is the outcome of Context::new() and context.devices(); listed are the devices
\* on the bus; io[k] the outcomes of the calls on device k.
get_device_list(listed, bus, io) ==
    IF ~bus_ok(bus) THEN <<>>
    ELSE [k \in {d \in listed : io[d].desc} |-> get_device_info(k, io[k])]

\* ------------------------------------------------------------ state
VARIABLES
    platform,           \* the platform the program was built for
    pc,                 \* where main is: start, init_enum (line 78), loop_enum (81),
                        \* for (84), scan (87), print (88-129), assign (134), sleep (137), done
    current_os,         \* main's current_os, "" before the check
    attached,           \* the keys of the devices on the bus
    dmesg,              \* the kernel ring buffer: [serial, line] records, oldest first
    next_serial,        \* the serial of the next kernel log line
    previous_devices,   \* main's previous_devices
    current_devices,    \* main's current_devices
    pending,            \* the keys the for loop has not visited yet
    new_key,            \* (bus, address) of the new device in the loop body, <<>> outside
    detection,          \* the loop body's detection
    cmd,                \* what Command::output returned to the scan in the loop body
    kernel_message,     \* the loop body's kernel_message
    suspicious_flags,   \* the loop body's suspicious_flags
    reports,            \* the report blocks printed by the current pass of the for loop
    \* history
    captured,           \* the serials of the lines in cmd.stdout, and the serial the buffer
                        \* stood at when it was last emptied in this cycle
    scans,              \* runs of the log command in the current pass of the for loop
    scan_floor,         \* next_serial when the buffer was last emptied in this cycle, else 0
    scanned,            \* serials that appeared in the output of a scan
    rescanned,          \* serials that appeared in the output of two scans
    enumerated,         \* get_device_list was called
    scanner_called,     \* def_check_kernel_logs was called
    prev_failed,        \* the enumeration that gave previous_devices failed on the bus
    cur_failed,         \* the enumeration that gave current_devices failed on the bus
    steady,             \* keys in the initial snapshot and in every snapshot since
    replaced,           \* while main sleeps: the keys of the snapshot the assignment dropped
    never_unplugged     \* keys attached at the start and never unplugged

program_vars == <<platform, pc, current_os, previous_devices, current_devices, pending, new_key,
                  detection, cmd, kernel_message, suspicious_flags, reports>>
history_vars == <<captured, scans, scan_floor, scanned, rescanned, enumerated, scanner_called,
                  prev_failed, cur_failed, steady, replaced>>
vars == <<program_vars, history_vars, attached, dmesg, next_serial, never_unplugged>>

NoKey == <<>>
NoCmd == [status |-> "none", stdout |-> <<>>]
NoCapture == [serials |-> <<>>, floor |-> 0]

\* The lines a kernel writes while the monitor runs.
KernelLines == {"L_new", "L_strings0"}

Range(f) == {f[x] : x \in DOMAIN f}
line_texts(buffer) == [i \in DOMAIN buffer |-> buffer[i].line]
line_serials(buffer) == [i \in DOMAIN buffer |-> buffer[i].serial]

\* The state before main runs, on a machine with the given devices and ring buffer.
Boot(devices, buffer) ==
    /\ platform \in Platforms
    /\ pc = "start"
    /\ current_os = ""
    /\ attached = devices
    /\ dmesg = buffer
    /\ next_serial = Len(buffer) + 1
    /\ previous_devices = <<>>
    /\ current_devices = <<>>
    /\ pending = {}
    /\ new_key = NoKey
    /\ detection = ""
    /\ cmd = NoCmd
    /\ kernel_message = ""
    /\ suspicious_flags = <<>>
    /\ reports = <<>>
    /\ captured = NoCapture
    /\ scans = 0
    /\ scan_floor = 0
    /\ scanned = {}
    /\ rescanned = {}
    /\ enumerated = FALSE
    /\ scanner_called = FALSE
    /\ prev_failed = FALSE
    /\ cur_failed = FALSE
    /\ steady = {}
    /\ replaced = {}
    /\ never_unplugged = devices

Init == \E devices \in SUBSET Keys : Boot(devices, <<>>)

\* ------------------------------------------------------------ environment
Plug(k) ==
    /\ k \notin attached
    /\ attached' = attached \cup {k}
    /\ UNCHANGED <<program_vars, history_vars, dmesg, next_serial, never_unplugged>>

Unplug(k) ==
    /\ k \in attached
    /\ attached' = attached \ {k}
    /\ never_unplugged' = never_unplugged \ {k}
    /\ UNCHANGED <<program_vars, history_vars, dmesg, next_serial>>

KernelLog(l) ==
    /\ next_serial <= MaxSerial
    /\ dmesg' = Append(dmesg, [serial |-> next_serial, line |-> l])
    /\ next_serial' = next_serial + 1
    /\ UNCHANGED <<program_vars, history_vars, attached, never_unplugged>>

Environment ==
    \/ \E k \in Keys : Plug(k)
    \/ \E k \in Keys : Unplug(k)
    \/ \E l \in KernelLines : KernelLog(l)

\* ------------------------------------------------------------ main
env_vars == <<attached, dmesg, next_serial, never_unplugged>>
scan_vars == <<cmd, kernel_message, suspicious_flags, captured, scans, scan_floor, scanned,
               rescanned, scanner_called>>
for_vars == <<pending, new_key, detection, reports>>

\* lines 69-74
CheckOs ==
    /\ pc = "start"
    /\ LET r == check_os_compatibility(platform)
       IN  /\ current_os' = r[2]
           /\ pc' = IF r[1] THEN "init_enum" ELSE "done"
    /\ UNCHANGED <<platform, previous_devices, current_devices, for_vars, scan_vars,
                   enumerated, prev_failed, cur_failed, steady, replaced, env_vars>>

after_enumerate_abort(bus, next) == IF bus_ok(bus) THEN next ELSE "done"
\* Where main goes on after get_device_list returned: both Err arms fall through to the
\* (empty) map, so main goes on as after a success.
after_enumerate(bus, next) == next

\* line 78
InitEnumerate ==
    /\ pc = "init_enum"
    /\ \E bus \in {"ok", "context_err", "devices_err"}, io \in [attached -> IoOutcomes] :
          /\ previous_devices' = get_device_list(attached, bus, io)
          /\ prev_failed' = ~bus_ok(bus)
          /\ pc' = after_enumerate(bus, "loop_enum")
    /\ steady' = DOMAIN previous_devices'
    /\ enumerated' = TRUE
    /\ UNCHANGED <<platform, current_os, current_devices, for_vars, scan_vars, cur_failed, replaced,
                   env_vars>>

\* line 81, and the for loop's iterator over current_devices
LoopEnumerate ==
    /\ pc = "loop_enum"
    /\ \E bus \in {"ok", "context_err", "devices_err"}, io \in [attached -> IoOutcomes] :
          /\ current_devices' = get_device_list(attached, bus, io)
          /\ cur_failed' = ~bus_ok(bus)
          /\ pc' = after_enumerate(bus, "for")
    /\ steady' = steady \cap DOMAIN current_devices'
    /\ pending' = DOMAIN current_devices'
    /\ enumerated' = TRUE
    /\ UNCHANGED <<platform, current_os, previous_devices, new_key, detection, reports, scan_vars,
                   prev_failed, replaced, env_vars>>

is_new_or_changed(k) == k \notin DOMAIN previous_devices \/ previous_devices[k] # current_devices[k]
\* !previous_devices.contains_key(&(*bus, *address))
is_new(k) == k \notin DOMAIN previous_devices

\* lines 84-86: the iterator yields a key; a new one enters the body and is analysed
ForNext ==
    /\ pc = "for"
    /\ \E k \in pending :
          /\ pending' = pending \ {k}
          /\ IF is_new(k)
             THEN /\ new_key' = k
                  /\ detection' = def_analysis_voltage_and_speed(current_devices[k].max_power_ma,
                                                                 current_devices[k].speed)
                  /\ pc' = "scan"
             ELSE UNCHANGED <<new_key, detection, pc>>
    /\ UNCHANGED <<platform, current_os, previous_devices, current_devices, reports, scan_vars,
                   enumerated, prev_failed, cur_failed, steady, replaced, env_vars>>

\* line 131: the iterator is exhausted
ForEnd ==
    /\ pc = "for"
    /\ pending = {}
    /\ pc' = "assign"
    /\ UNCHANGED <<platform, current_os, previous_devices, current_devices, for_vars, scan_vars,
                   enumerated, prev_failed, cur_failed, steady, replaced, env_vars>>

\* What `sudo dmesg -c` does: it cannot be started, it is refused and prints nothing, or it
\* prints the ring buffer and empties it.
CommandOutcomes == {"spawn_failed", "refused", "dumped"}

buffer_after_keep(outcome) == dmesg
buffer_after(outcome) == IF outcome = "dumped" THEN <<>> ELSE dmesg

\* line 87 on Linux: def_check_kernel_logs runs the log command
ScanLinux ==
    /\ pc = "scan"
    /\ current_os = "Linux"
    /\ \E outcome \in CommandOutcomes :
          LET out == IF outcome = "dumped" THEN dmesg ELSE <<>>
              c == [status |-> IF outcome = "spawn_failed" THEN "spawn_failed" ELSE "output",
                    stdout |-> line_texts(out)]
          IN  /\ \E order \in iteration_orders(DOMAIN extract_device_info(c.stdout)) :
                    LET r == def_check_kernel_logs(current_os, c, order)
                    IN  kernel_message' = r[1] /\ suspicious_flags' = r[2]
              /\ cmd' = c
              /\ dmesg' = buffer_after(outcome)
              /\ captured' = [serials |-> line_serials(out), floor |-> scan_floor]
              /\ scan_floor' = IF outcome = "dumped" THEN next_serial ELSE scan_floor
              /\ scanned' = scanned \cup Range(line_serials(out))
              /\ rescanned' = rescanned \cup (scanned \cap Range(line_serials(out)))
    /\ scans' = scans + 1
    /\ scanner_called' = TRUE
    /\ pc' = "print"
    /\ UNCHANGED <<platform, current_os, previous_devices, current_devices, for_vars,
                   enumerated, prev_failed, cur_failed, steady, replaced, attached, next_serial,
                   never_unplugged>>

\* line 87 elsewhere: no command is run
ScanOther ==
    /\ pc = "scan"
    /\ current_os # "Linux"
    /\ LET r == def_check_kernel_logs(current_os, NoCmd, <<>>)
       IN  kernel_message' = r[1] /\ suspicious_flags' = r[2]
    /\ scanner_called' = TRUE
    /\ pc' = "print"
    /\ UNCHANGED <<platform, current_os, previous_devices, current_devices, for_vars, cmd,
                   captured, scans, scan_floor, scanned, rescanned,
                   enumerated, prev_failed, cur_failed, steady, replaced, env_vars>>

\* lines 88-129: the report block of the new device
PrintReport ==
    /\ pc = "print"
    /\ reports' = Append(reports, [key |-> new_key,
                                   info |-> current_devices[new_key],
                                   detection |-> detection,
                                   kernel_message |-> kernel_message,
                                   flags |-> suspicious_flags])
    /\ new_key' = NoKey
    /\ detection' = ""
    /\ cmd' = NoCmd
    /\ captured' = NoCapture
    /\ kernel_message' = ""
    /\ suspicious_flags' = <<>>
    /\ pc' = "for"
    /\ UNCHANGED <<platform, current_os, previous_devices, current_devices, pending,
                   scans, scan_floor, scanned, rescanned, scanner_called,
                   enumerated, prev_failed, cur_failed, steady, replaced, env_vars>>

previous_after_merge == [k \in (DOMAIN previous_devices) \cup (DOMAIN current_devices) |->
                            IF k \in DOMAIN current_devices THEN current_devices[k]
                            ELSE previous_devices[k]]
previous_after_if_new == IF reports # <<>> THEN current_devices ELSE previous_devices
\* previous_devices = current_devices
previous_after == current_devices

\* line 134
Assign ==
    /\ pc = "assign"
    /\ previous_devices' = previous_after
    /\ prev_failed' = cur_failed
    /\ replaced' = DOMAIN previous_devices
    /\ reports' = <<>>
    /\ scans' = 0
    /\ scan_floor' = 0
    /\ pc' = "sleep"
    /\ UNCHANGED <<platform, current_os, current_devices, pending, new_key, detection, cmd,
                   kernel_message, suspicious_flags, captured, scanned, rescanned,
                   scanner_called, enumerated, cur_failed, steady, env_vars>>

\* line 137
Sleep ==
    /\ pc = "sleep"
    /\ pc' = "loop_enum"
    /\ replaced' = {}
    /\ UNCHANGED <<platform, current_os, previous_devices, current_devices, for_vars, scan_vars,
                   enumerated, prev_failed, cur_failed, steady, env_vars>>

Main ==
    \/ CheckOs
    \/ InitEnumerate
    \/ LoopEnumerate
    \/ ForNext
    \/ ForEnd
    \/ ScanLinux
    \/ ScanOther
    \/ PrintReport
    \/ Assign
    \/ Sleep

Next == Main \/ Environment

Spec == Init /\ [][Next]_vars

\* Every call main makes returns.
FairSpec == Spec /\ WF_vars(Main)

\* ------------------------------------------------------------ the scanner on drawn log texts
RECURSIVE SeqsUpTo(_, _)
SeqsUpTo(S, n) ==
    IF n = 0 THEN {<<>>}
    ELSE LET shorter == SeqsUpTo(S, n - 1)
         IN  shorter \cup {Append(s, x) : s \in {t \in shorter : Len(t) = n - 1}, x \in S}

PadSizes == {0} \cup ((RawLogLimit - PadSlack)..(RawLogLimit + PadSlack))

\* A log text: pad lines without any pattern, then the suffix.
LogText(pad, suffix) == [i \in 1..pad |-> "L_benign"] \o suffix

\* main at line 87 of a Linux run, for one new device, with the given ring buffer
AtScan(k, info, buffer) ==
    /\ platform = "Linux"
    /\ pc = "scan"
    /\ current_os = "Linux"
    /\ attached = {k}
    /\ dmesg = buffer
    /\ next_serial = Len(buffer) + 1
    /\ previous_devices = <<>>
    /\ current_devices = (k :> info)
    /\ pending = {}
    /\ new_key = k
    /\ detection = def_analysis_voltage_and_speed(info.max_power_ma, info.speed)
    /\ cmd = NoCmd
    /\ kernel_message = ""
    /\ suspicious_flags = <<>>
    /\ reports = <<>>
    /\ captured = NoCapture
    /\ scans = 0
    /\ scan_floor = 0
    /\ scanned = {}
    /\ rescanned = {}
    /\ enumerated = TRUE
    /\ scanner_called = FALSE
    /\ prev_failed = FALSE
    /\ cur_failed = FALSE
    /\ steady = {}
    /\ replaced = {}
    /\ never_unplugged = {k}

ScanInit ==
    \E pad \in PadSizes, suffix \in SeqsUpTo(LineIds, MaxSuffix) :
        LET text == LogText(pad, suffix)
        IN  AtScan(<<1, 3>>, get_device_info(<<1, 3>>, IoOk),
                   [i \in DOMAIN text |-> [serial |-> i, line |-> text[i]]])

ScanNext == ScanLinux \/ PrintReport

ScanSpec == ScanInit /\ [][ScanNext]_vars

\* ------------------------------------------------------------ the analyzer on drawn devices
VoltageSamples == {0, 5, 9, 10, 11, 50, 99, 100, 101, 199, 200, 201, 481, 482, 65535}
SpeedSamples == {0, 1, 2, 3, 10, 11, 12, 15, 24, 25, 50, 100, 400, 401, 480, 500, 5000, 10000, 2147483647}

\* main at line 84, on the first pass of the for loop, with one device in the snapshot
AnalyzerInit ==
    \E voltage \in VoltageSamples, speed \in SpeedSamples, p \in {"Linux", "macOS"} :
        LET k == <<1, 3>>
            info == [get_device_info(k, IoOk) EXCEPT !.max_power_ma = voltage, !.speed = speed]
        IN  /\ platform = p
            /\ pc = "for"
            /\ current_os = p
            /\ attached = {k}
            /\ dmesg = <<>>
            /\ next_serial = 1
            /\ previous_devices = <<>>
            /\ current_devices = (k :> info)
            /\ pending = {k}
            /\ new_key = NoKey
            /\ detection = ""
            /\ cmd = NoCmd
            /\ kernel_message = ""
            /\ suspicious_flags = <<>>
            /\ reports = <<>>
            /\ captured = NoCapture
            /\ scans = 0
            /\ scan_floor = 0
            /\ scanned = {}
            /\ rescanned = {}
            /\ enumerated = TRUE
            /\ scanner_called = FALSE
            /\ prev_failed = FALSE
            /\ cur_failed = FALSE
            /\ steady = {}
            /\ replaced = {}
            /\ never_unplugged = {k}

AnalyzerNext == ForNext \/ ScanLinux \/ ScanOther \/ PrintReport \/ ForEnd

AnalyzerSpec == AnalyzerInit /\ [][AnalyzerNext]_vars

\* ------------------------------------------------------------ properties
ReportedKeys == {reports[i].key : i \in DOMAIN reports}
NewKeys == (DOMAIN current_devices) \ (DOMAIN previous_devices)
InForLoop == pc \in {"for", "scan", "print", "assign"}
Supported == {"Linux", "macOS"}

\* C1: in every pass of the for loop the keys reported as new are keys of the current
\* snapshot that the previous snapshot lacks, none is reported twice, and when the
\* loop ends they are exactly those keys; a key only the previous snapshot has is
\* never reported.
C1_NewKeysReportedOnce ==
    /\ InForLoop =>
          /\ ReportedKeys \subseteq NewKeys
          /\ Cardinality(ReportedKeys) = Len(reports)
          /\ pc \in {"scan", "print"} => new_key \in NewKeys \ ReportedKeys
    /\ pc = "assign" => ReportedKeys = NewKeys
    /\ ~InForLoop => reports = <<>>

\* previous = {(1,2)}, current = {(1,2), (1,3)}: exactly (1,3) was reported
C1_Witness ==
    /\ pc = "assign"
    /\ DOMAIN previous_devices = {<<1, 2>>}
    /\ DOMAIN current_devices = {<<1, 2>>, <<1, 3>>}
    /\ ReportedKeys = {<<1, 3>>}

\* C2: when the assignment of line 134 has run, previous_devices is the cycle's
\* current snapshot, and no key that only the dropped snapshot had is left in it.
C2_PreviousIsCurrent ==
    pc = "sleep" =>
        /\ previous_devices = current_devices
        /\ (replaced \ DOMAIN current_devices) \cap DOMAIN previous_devices = {}

\* previous = {(1,2)}, current = {}: the stored snapshot became empty
C2_Witness ==
    /\ pc = "sleep"
    /\ replaced = {<<1, 2>>}
    /\ current_devices = <<>>
    /\ previous_devices = <<>>

\* C3: on an unsupported platform main never enumerates, never reports, never calls the
\* scanner, and reaches its end; on Linux and macOS it never reaches its end.
C3_UnsupportedExits ==
    /\ [](platform \notin Supported =>
            /\ ~enumerated
            /\ ~scanner_called
            /\ reports = <<>>
            /\ pc \in {"start", "done"})
    /\ [](platform \in Supported => pc # "done")
    /\ ((platform \notin Supported) ~> (pc = "done"))

C3_Witness ==
    /\ platform = "Unsupported OS"
    /\ pc = "done"
    /\ attached = Keys
    /\ dmesg # <<>>

\* C4: on a supported platform main never ends, and in every run in which each call
\* returns, whatever fails in the enumerations and the scans, main again and again
\* enumerates (line 81) and again and again has just assigned previous = current.
C4_LoopNeverStops ==
    /\ [](platform \in Supported => pc # "done")
    /\ [](cur_failed => current_devices = <<>>)
    /\ []<>(platform \notin Supported \/ (pc = "for" /\ pending = DOMAIN current_devices))
    /\ []<>(platform \notin Supported \/ (pc = "sleep" /\ previous_devices = current_devices))

\* a cycle whose enumeration failed on the bus, with both devices attached, has
\* replaced the snapshot and main goes on
C4_Witness ==
    /\ pc = "sleep"
    /\ cur_failed
    /\ replaced = Keys
    /\ attached = Keys
    /\ previous_devices = <<>>

HighConfidenceRule(power, speed) ==
    \/ (power < 10 /\ speed > 400)
    \/ (power > 481 /\ 10 < speed /\ speed < 25)
    \/ (power >= 200 /\ speed < 2)
    \/ (power = 100 /\ speed < 2)

ExpectedDetection(info) ==
    IF HighConfidenceRule(info.max_power_ma, info.speed)
    THEN "Detection of implantable devices: High confidence"
    ELSE "Detection of implantable devices: No confidence"

\* C5: the detection of a new device is "High confidence" iff one of the four rules
\* holds of its max_power_ma and speed in the current snapshot, "No confidence"
\* otherwise, and that is the detection line of its report.
C5_DetectionLine ==
    /\ pc \in {"scan", "print"} => detection = ExpectedDetection(current_devices[new_key])
    /\ \A i \in DOMAIN reports :
          /\ reports[i].info = current_devices[reports[i].key]
          /\ reports[i].detection = ExpectedDetection(reports[i].info)

\* max_power_ma = 5, speed = 500
C5_Witness ==
    \E i \in DOMAIN reports :
        /\ reports[i].info.max_power_ma = 5
        /\ reports[i].info.speed = 500
        /\ reports[i].detection = "Detection of implantable devices: High confidence"

\* The scanner's notions, stated on the text.
DeviceLine(l) == LineContains[l]["new"] /\ LineContains[l]["USB device number"]
IdsLine(l) == LineContains[l]["idVendor="] /\ LineContains[l]["idProduct="]
FieldLine(l) ==
    LineContains[l]["Manufacturer:"] \/ LineContains[l]["Product:"] \/ LineContains[l]["SerialNumber:"]
FieldOf(l) ==
    IF LineContains[l]["Manufacturer:"] THEN "manufacturer"
    ELSE IF LineContains[l]["Product:"] THEN "product" ELSE "serial"
HasKeyword(l) == \E k \in DOMAIN suspicious_keywords : LineLowerContains[l][k]
\* The grouping key in force at line i: the text before ": " of the last device line
\* at or before it.
KeyAt(log, i) ==
    LET devs == {j \in 1..i : DeviceLine(log[j])}
    IN  IF devs = {} THEN <<>> ELSE LineLocation[log[Max(devs)]]
\* The map entries line i is recorded under.
Slots(log, i) ==
    IF KeyAt(log, i) = <<>> THEN {}
    ELSE (IF IdsLine(log[i]) THEN {<<KeyAt(log, i), "ids">>} ELSE {})
         \cup (IF FieldLine(log[i]) THEN {<<KeyAt(log, i), FieldOf(log[i])>>} ELSE {})
RecordsExtracted(log) == \E i \in DOMAIN log : Slots(log, i) # {}
\* Line i is the value of an entry when the scan ends.
Survives(log, i) ==
    \E s \in Slots(log, i) : \A j \in DOMAIN log : j > i => s \notin Slots(log, j)
FindingsExist(log) ==
    \/ \E i \in DOMAIN log : i <= 40 /\ HasKeyword(log[i])
    \/ \E i \in DOMAIN log : Survives(log, i) /\ HasKeyword(log[i])
Scanned == pc = "print" /\ current_os = "Linux"

\* C6: the status of a Linux scan is decided by whether records were extracted and
\* whether findings exist, in the order device-suspicious, clean, activity-suspicious,
\* no-information; the findings returned are non-empty exactly with the two
\* "Suspicious" statuses; a command that could not run and an empty output have their
\* own statuses and no findings.
C6_Classification ==
    Scanned =>
        LET log == cmd.stdout
            recs == RecordsExtracted(log)
            finds == FindingsExist(log)
        IN  /\ cmd.status = "spawn_failed" =>
                  /\ kernel_message = "Failed to execute dmesg command"
                  /\ suspicious_flags = <<>>
            /\ (cmd.status = "output" /\ log = <<>>) =>
                  /\ kernel_message = "No USB events found in recent kernel logs"
                  /\ suspicious_flags = <<>>
            /\ (cmd.status = "output" /\ log # <<>>) =>
                  /\ kernel_message =
                        IF recs
                        THEN IF finds THEN "Suspicious USB device detected in kernel logs!"
                             ELSE "No suspicious signs of usb"
                        ELSE IF finds THEN "Suspicious USB activity detected in kernel logs!"
                             ELSE "USB events detected but no device information extracted"
                  /\ (suspicious_flags # <<>>) <=> finds
            /\ (suspicious_flags # <<>>) <=>
                  kernel_message \in {"Suspicious USB device detected in kernel logs!",
                                      "Suspicious USB activity detected in kernel logs!"}

\* records were extracted and one of them holds a keyword
C6_Witness ==
    /\ Scanned
    /\ cmd.status = "output"
    /\ RecordsExtracted(cmd.stdout)
    /\ kernel_message = "Suspicious USB device detected in kernel logs!"
    /\ \E i \in DOMAIN suspicious_flags : suspicious_flags[i].source = "value"

MentionsMfr(l) == LineLowerContains[l][3]
MfrFinding(l) ==
    \E j \in DOMAIN suspicious_flags :
        suspicious_flags[j].keyword = "Mfr=0, Product=0" /\ suspicious_flags[j].line = l

\* C7 as stated: a line with "Mfr=0, Product=0" in any letter case at any position of
\* the output has a finding that names the keyword and quotes the line.
C7_AnyPosition ==
    (Scanned /\ cmd.status = "output") =>
        /\ \A i \in DOMAIN cmd.stdout : MentionsMfr(cmd.stdout[i]) => MfrFinding(cmd.stdout[i])
        /\ cmd.stdout = <<>> =>
              /\ kernel_message = "No USB events found in recent kernel logs"
              /\ suspicious_flags = <<>>

\* C7: a line with "Mfr=0, Product=0" in any letter case among the first 40 lines of
\* the output has a finding that names the keyword and quotes the line; an empty
\* output gives ("No USB events found in recent kernel logs", []).
C7_FirstFortyLines ==
    (Scanned /\ cmd.status = "output") =>
        /\ \A i \in DOMAIN cmd.stdout :
              (i <= 40 /\ MentionsMfr(cmd.stdout[i])) => MfrFinding(cmd.stdout[i])
        /\ cmd.stdout = <<>> =>
              /\ kernel_message = "No USB events found in recent kernel logs"
              /\ suspicious_flags = <<>>

\* the keyword in capitals on line 40
C7_Witness ==
    /\ Scanned
    /\ cmd.status = "output"
    /\ Len(cmd.stdout) >= 40
    /\ cmd.stdout[40] = "L_strings0_uc"
    /\ MfrFinding("L_strings0_uc")

CleanDeviceLog(log) ==
    /\ \E i, j \in DOMAIN log : i < j /\ DeviceLine(log[i]) /\ IdsLine(log[j])
    /\ \A i \in DOMAIN log : ~HasKeyword(log[i])
CleanKeyedDeviceLog(log) ==
    /\ \E i, j \in DOMAIN log :
          i < j /\ DeviceLine(log[i]) /\ IdsLine(log[j]) /\ KeyAt(log, j) # <<>>
    /\ \A i \in DOMAIN log : ~HasKeyword(log[i])

\* C8 as stated: a device line followed later by an ids line, with no keyword
\* anywhere, gives ("No suspicious signs of usb", []), whatever precedes ": " on
\* the device line.
C8_AnyPrefix ==
    (Scanned /\ cmd.status = "output" /\ CleanDeviceLog(cmd.stdout)) =>
        /\ kernel_message = "No suspicious signs of usb"
        /\ suspicious_flags = <<>>

\* C8: a device line followed later by an ids line, with no keyword anywhere, gives
\* ("No suspicious signs of usb", []) when the grouping key in force at the ids
\* line (the trimmed text before the first ": " of the last device line up to it,
\* the whole line if it has no ": ") is not empty.
C8_NonEmptyKey ==
    (Scanned /\ cmd.status = "output" /\ CleanKeyedDeviceLog(cmd.stdout)) =>
        /\ kernel_message = "No suspicious signs of usb"
        /\ suspicious_flags = <<>>

C8_Witness ==
    /\ Scanned
    /\ cmd.status = "output"
    /\ CleanKeyedDeviceLog(cmd.stdout)
    /\ Len(cmd.stdout) > 40
    /\ kernel_message = "No suspicious signs of usb"

\* C9: on Linux the log command has run once for each report printed in the pass, and
\* once more while a new key's report is still to be printed; at the end of the pass
\* it has run once per new key; no line appears in the output of two scans; and a
\* scan's output holds only lines logged after the buffer was last emptied in the
\* cycle.
C9_OneScanPerNewKey ==
    current_os = "Linux" =>
        /\ pc \in {"for", "scan", "assign"} => scans = Len(reports)
        /\ pc = "print" => scans = Len(reports) + 1
        /\ pc = "assign" => scans = Cardinality(NewKeys)
        /\ ~InForLoop => scans = 0
        /\ rescanned = {}
        /\ \A i \in DOMAIN captured.serials : captured.serials[i] >= captured.floor

\* the second scan of a cycle sees a line logged after the first
C9_Witness ==
    /\ current_os = "Linux"
    /\ pc = "print"
    /\ Len(reports) = 1
    /\ scans = 2
    /\ captured.floor > 0
    /\ captured.serials # <<>>

\* C10: after an enumeration that failed on the bus, previous_devices is empty and the
\* next pass over a snapshot that did not fail reports every device in it; a key that
\* was in the initial snapshot and in every snapshot since is never reported; a key the
\* previous snapshot lacks is reported when it is in the current one.
C10_ReportedAgainAfterFailure ==
    /\ prev_failed /\ pc # "init_enum" => previous_devices = <<>>
    /\ (pc = "assign" /\ prev_failed /\ ~cur_failed) => ReportedKeys = DOMAIN current_devices
    /\ ReportedKeys \cap steady = {}
    /\ pc \in {"scan", "print"} => new_key \notin steady
    /\ pc = "assign" => \A k \in DOMAIN current_devices : k \notin DOMAIN previous_devices => k \in ReportedKeys

\* both devices were attached from the start, never unplugged, and are reported as new
C10_Witness ==
    /\ pc = "assign"
    /\ prev_failed
    /\ ~cur_failed
    /\ never_unplugged = Keys
    /\ ReportedKeys = Keys
====
